---- MODULE Spec2Model ----
(***************************************************************************)
(* A model of the execution-time crate: the decomposition of a Duration    *)
(* into a Time record (traits/duration_extension.rs, traits/round_float.rs)*)
(* the rendering of a Time record as text (time.rs, traits/format_value.rs,*)
(* traits/singular_plural.rs) and the ExecutionTime stopwatch (lib.rs).    *)
(*                                                                         *)
(* Numbers.  A Duration is Rust's pair (secs, nanos).  An f64 is modelled  *)
(* as the decimal fixed-point number  sec + nano*10^-9 + pico*10^-12  held *)
(* in three limbs (TLC's integers are 32 bits wide, so one limb cannot     *)
(* hold a day in nanoseconds).  The binary rounding of f64 is modelled     *)
(* where the crate meets it: as_secs_f64 returns any value within half an  *)
(* ulp of the exact one (HalfUlpPico), so round_float(9) has a residue to  *)
(* round away.  fmod (%) by an integral constant is exact in IEEE-754, and *)
(* floor(x / c) equals the exact floor for the magnitudes modelled.        *)
(*                                                                         *)
(* Text.  A String is a sequence of one-character strings, so that the     *)
(* number of digits printed and the label chosen can be read back.         *)
(***************************************************************************)
EXTENDS Integers, Sequences, FiniteSets, TLC

VARIABLES
    duration,     \* the Duration handed to get_time: [secs, nanos]
    all_seconds,  \* get_time's local all_seconds (the f64 S), once computed
    time,         \* a Time record: [days, hours, minutes, seconds]
    text,         \* the String an operation returned
    count,        \* the receiver of format_unit (an integer)
    value,        \* the receiver of format_float_unit (an f64)
    decimal,      \* format_float_unit's decimal argument
    unit,         \* format_unit's / format_float_unit's unit argument
    pc,           \* which operation has acted
    now,          \* the monotonic clock (Instant::now()), in ticks of TickNanos
    start_time,   \* ExecutionTime.start_time
    reads,        \* the Durations get_duration returned, oldest first
    thread,       \* per thread sharing the stopwatch: the call it is in and its locals
    stdout        \* the lines print_elapsed_time has written

vars == <<duration, all_seconds, time, text, count, value, decimal, unit, pc, now, start_time, reads,
          thread, stdout>>

----------------------------------------------------------------------------
(* Bounds of the model. *)

MaxDays == 2
MaxClock == 6
MaxReads == 4
MaxCalls == 1

----------------------------------------------------------------------------
(* f64 values: sec + nano*10^-9 + pico*10^-12, all limbs non-negative. *)

NanosPerSec == 10^9
PicosPerNano == 10^3

F64(s, n, p) == [sec |-> s, nano |-> n, pico |-> p]

F64Zero == F64(0, 0, 0)

\* a < b
F64Lt(a, b) ==
    \/ a.sec < b.sec
    \/ a.sec = b.sec /\ a.nano < b.nano
    \/ a.sec = b.sec /\ a.nano = b.nano /\ a.pico < b.pico

\* a >= b
F64Ge(a, b) == ~F64Lt(a, b)

\* x shifted by e picoseconds (e may be negative; the result is non-negative
\* for the arguments used: |e| < 1000 and x >= one nanosecond when e < 0).
F64AddPico(x, e) ==
    LET p == x.pico + e
        n == x.nano + (p \div PicosPerNano)
    IN  F64(x.sec + (n \div NanosPerSec), n % NanosPerSec, p % PicosPerNano)

\* f64 `%` by an integral constant m: exact (IEEE fmod), the fraction is kept.
F64Rem(x, m) == F64(x.sec % m, x.nano, x.pico)

\* (x / m).floor() for an integral constant m
F64DivFloor(x, m) == x.sec \div m

\* f64::round(): to the nearest integer, halves away from zero
F64Round(x) ==
    IF x.nano >= NanosPerSec \div 2 THEN F64(x.sec + 1, 0, 0) ELSE F64(x.sec, 0, 0)

\* floor(log2(n)) for n >= 1
RECURSIVE Log2(_)
Log2(n) == IF n <= 1 THEN 0 ELSE 1 + Log2(n \div 2)

\* An upper bound, in picoseconds, of half an ulp of an f64 whose integer
\* part is secs: 2^(e-53) s = 2^e / 9007.199 ps, e = floor(log2(secs)).
HalfUlpPico(secs) == IF secs = 0 THEN 1 ELSE ((2^Log2(secs)) \div 9007) + 1

\* Duration::as_secs_f64: secs as f64 + nanos as f64 / 1e9.  Exact when nanos = 0
\* (an integer below 2^53); otherwise any value within half an ulp of the sum.
as_secs_f64(d) ==
    IF d.nanos = 0
    THEN {F64(d.secs, 0, 0)}
    ELSE {F64AddPico(F64(d.secs, d.nanos, 0), e) :
              e \in (0 - HalfUlpPico(d.secs))..HalfUlpPico(d.secs)}

\* float-to-integer `as` casts saturate
AsU8(n) == IF n > 255 THEN 255 ELSE n

----------------------------------------------------------------------------
(* traits/round_float.rs *)

\* round_float with ceil() in the place of round()
round_float_ceil(x, dec) ==
    IF dec <= 0 \/ x = F64Zero
    THEN (IF x.nano > 0 \/ x.pico > 0 THEN F64(x.sec + 1, 0, 0) ELSE F64(x.sec, 0, 0))
    ELSE LET multiplier == 10^dec
             step == NanosPerSec \div multiplier
             q    == x.nano \div step
             r    == x.nano % step
             up   == r > 0 \/ x.pico > 0
             n    == (IF up THEN q + 1 ELSE q) * step
         IN  F64(x.sec + (n \div NanosPerSec), n % NanosPerSec, 0)

\* RoundFloat::round_float for f64, decimal <= 9: the multiple of 10^-decimal
\* nearest to x, halves away from zero.
round_float(x, dec) ==
    IF dec <= 0 \/ x = F64Zero
    THEN F64Round(x)
    ELSE LET multiplier == 10^dec
             step == NanosPerSec \div multiplier      \* one unit, in nanoseconds
             q    == x.nano \div step
             r    == x.nano % step
             up   == IF step > 1 THEN r >= step \div 2 ELSE x.pico >= PicosPerNano \div 2
             n    == (IF up THEN q + 1 ELSE q) * step
         IN  F64(x.sec + (n \div NanosPerSec), n % NanosPerSec, 0)

----------------------------------------------------------------------------
(* traits/duration_extension.rs *)

SECONDS_IN_DAY == 86400
SECONDS_IN_HOUR == 3600
SECONDS_IN_MINUTE == 60

Time(d, h, m, s) == [days |-> d, hours |-> h, minutes |-> m, seconds |-> s]

\* Time::default()
TimeDefault == Time(0, 0, 0, F64Zero)

\* get_time with hours taken from all_seconds, not from remaining_day
get_time_of_hours_of_total(S) ==
    LET remaining_day  == F64Rem(S, SECONDS_IN_DAY)
        remaining_hour == F64Rem(remaining_day, SECONDS_IN_HOUR)
        days    == F64DivFloor(S, SECONDS_IN_DAY)
        hours   == AsU8(F64DivFloor(S, SECONDS_IN_HOUR))
        minutes == AsU8(F64DivFloor(remaining_hour, SECONDS_IN_MINUTE))
        seconds == round_float(F64Rem(remaining_hour, SECONDS_IN_MINUTE), 9)
    IN  Time(days, hours, minutes, seconds)

\* get_time with seconds taken from remaining_hour without the last `%`
get_time_of_seconds_not_reduced(S) ==
    LET remaining_day  == F64Rem(S, SECONDS_IN_DAY)
        remaining_hour == F64Rem(remaining_day, SECONDS_IN_HOUR)
        days    == F64DivFloor(S, SECONDS_IN_DAY)
        hours   == AsU8(F64DivFloor(remaining_day, SECONDS_IN_HOUR))
        minutes == AsU8(F64DivFloor(remaining_hour, SECONDS_IN_MINUTE))
        seconds == round_float(remaining_hour, 9)
    IN  Time(days, hours, minutes, seconds)

\* the body of get_time, from all_seconds on
get_time_of(S) ==
    LET remaining_day  == F64Rem(S, SECONDS_IN_DAY)
        remaining_hour == F64Rem(remaining_day, SECONDS_IN_HOUR)
        days    == F64DivFloor(S, SECONDS_IN_DAY)
        hours   == AsU8(F64DivFloor(remaining_day, SECONDS_IN_HOUR))
        minutes == AsU8(F64DivFloor(remaining_hour, SECONDS_IN_MINUTE))
        seconds == round_float(F64Rem(remaining_hour, SECONDS_IN_MINUTE), 9)
    IN  Time(days, hours, minutes, seconds)

----------------------------------------------------------------------------
(* Strings: sequences of one-character strings. *)

Digit(d) == <<"0", "1", "2", "3", "4", "5", "6", "7", "8", "9">>[d + 1]

\* Display of a non-negative integer
RECURSIVE IntToStr(_)
IntToStr(n) == IF n < 10 THEN <<Digit(n)>> ELSE IntToStr(n \div 10) \o <<Digit(n % 10)>>

\* the w low decimal digits of n, zero padded on the left
RECURSIVE Digits(_, _)
Digits(n, w) == IF w = 0 THEN <<>> ELSE Digits(n \div 10, w - 1) \o <<Digit(n % 10)>>

\* the index of the first c in s, 0 when there is none
IndexOf(s, c) ==
    IF \E i \in 1..Len(s) : s[i] = c
    THEN CHOOSE i \in 1..Len(s) : s[i] = c /\ \A j \in 1..(i - 1) : s[j] # c
    ELSE 0

\* [String]::join
RECURSIVE Join(_, _)
Join(parts, sep) ==
    IF parts = <<>> THEN <<>>
    ELSE IF Len(parts) = 1 THEN parts[1]
    ELSE parts[1] \o sep \o Join(Tail(parts), sep)

\* Display of an f64 with precision k ("{x:.k$}"), 0 <= k <= 9: the decimal
\* expansion correctly rounded to k fractional digits, an exact tie going to
\* the even digit; no decimal point when k = 0.
FormatFixed(x, k) ==
    LET step  == 10^(9 - k)                       \* one printed unit, in nanoseconds
        q     == x.nano \div step
        r     == x.nano % step
        above == IF step > 1
                 THEN r > step \div 2 \/ (r = step \div 2 /\ x.pico > 0)
                 ELSE x.pico > PicosPerNano \div 2
        tie   == IF step > 1
                 THEN r = step \div 2 /\ x.pico = 0
                 ELSE x.pico = PicosPerNano \div 2
        odd   == IF k = 0 THEN x.sec % 2 = 1 ELSE q % 2 = 1
        f     == IF above \/ (tie /\ odd) THEN q + 1 ELSE q
        int   == IF f = 10^k THEN x.sec + 1 ELSE x.sec
        frac  == IF f = 10^k THEN 0 ELSE f
    IN  IntToStr(int) \o (IF k = 0 THEN <<>> ELSE <<".">> \o Digits(frac, k))

----------------------------------------------------------------------------
(* traits/singular_plural.rs *)

Unit == {"Second", "Minute", "Hour", "Day"}

singular(u) ==
    CASE u = "Second" -> <<"s", "e", "c", "o", "n", "d">>
      [] u = "Minute" -> <<"m", "i", "n", "u", "t", "e">>
      [] u = "Hour"   -> <<"h", "o", "u", "r">>
      [] u = "Day"    -> <<"d", "a", "y">>

plural(u) ==
    CASE u = "Second" -> <<"s", "e", "c", "o", "n", "d", "s">>
      [] u = "Minute" -> <<"m", "i", "n", "u", "t", "e", "s">>
      [] u = "Hour"   -> <<"h", "o", "u", "r", "s">>
      [] u = "Day"    -> <<"d", "a", "y", "s">>

----------------------------------------------------------------------------
(* traits/format_value.rs *)

\* format_float_unit choosing the label by the number as printed
format_float_unit_by_printed(x, dec, u) ==
    LET printed == FormatFixed(x, dec)
        whole   == IF IndexOf(printed, ".") = 0 THEN printed
                   ELSE SubSeq(printed, 1, IndexOf(printed, ".") - 1)
        label   == IF whole \notin {<<"0">>, <<"1">>} THEN plural(u) ELSE singular(u)
    IN  printed \o <<" ">> \o label

\* FormatFloatValue::format_float_unit for f64
format_float_unit(x, dec, u) ==
    LET label == IF F64Ge(x, F64(2, 0, 0)) THEN plural(u) ELSE singular(u)
    IN  FormatFixed(x, dec) \o <<" ">> \o label

\* format_unit with the singular label for 1 alone
format_unit_not_one(n, u) ==
    LET label == IF n # 1 THEN plural(u) ELSE singular(u)
    IN  IntToStr(n) \o <<" ">> \o label

\* FormatIntegerValue::format_unit
format_unit(n, u) ==
    LET label == IF n >= 2 THEN plural(u) ELSE singular(u)
    IN  IntToStr(n) \o <<" ">> \o label

----------------------------------------------------------------------------
(* time.rs *)

\* EPSILON: f64 = 1e-10
EPSILON == F64(0, 0, 100)

\* calculate_decimal with `sec > 1.0` in the place of `sec >= 1.0`
calculate_decimal_gt_one(t) ==
    LET sec == t.seconds
    IN  IF F64Lt(sec, EPSILON) THEN 1
        ELSE IF F64Lt(F64(1, 0, 0), sec) THEN 3
        ELSE IF F64Ge(sec, F64(0, 1000000, 0)) THEN 6
        ELSE 9

\* calculate_decimal without its first branch (sec < EPSILON)
calculate_decimal_no_epsilon(t) ==
    LET sec == t.seconds
    IN  IF F64Ge(sec, F64(1, 0, 0)) THEN 3
        ELSE IF F64Ge(sec, F64(0, 1000000, 0)) THEN 6
        ELSE 9

\* Time::calculate_decimal
calculate_decimal(t) ==
    LET sec == t.seconds
    IN  IF F64Lt(sec, EPSILON) THEN 1
        ELSE IF F64Ge(sec, F64(1, 0, 0)) THEN 3
        ELSE IF F64Ge(sec, F64(0, 1000000, 0)) THEN 6
        ELSE 9

\* format_time pushing the non-zero integer fields only
format_time_parts_nonzero_only(t) ==
    LET p1 == IF t.days > 0 THEN <<format_unit(t.days, "Day")>> ELSE <<>>
        p2 == IF t.hours > 0
              THEN Append(p1, format_unit(t.hours, "Hour")) ELSE p1
        p3 == IF t.minutes > 0
              THEN Append(p2, format_unit(t.minutes, "Minute")) ELSE p2
        dec == calculate_decimal(t)
    IN  Append(p3, format_float_unit(t.seconds, dec, "Second"))

\* format_time pushing every field
format_time_parts_all(t) ==
    LET p1 == <<format_unit(t.days, "Day")>>
        p2 == Append(p1, format_unit(t.hours, "Hour"))
        p3 == Append(p2, format_unit(t.minutes, "Minute"))
        dec == calculate_decimal(t)
    IN  Append(p3, format_float_unit(t.seconds, dec, "Second"))

\* the parts format_time pushes, in order
format_time_parts(t) ==
    LET p1 == IF t.days > 0 THEN <<format_unit(t.days, "Day")>> ELSE <<>>
        p2 == IF t.hours > 0 \/ p1 # <<>>
              THEN Append(p1, format_unit(t.hours, "Hour")) ELSE p1
        p3 == IF t.minutes > 0 \/ p2 # <<>>
              THEN Append(p2, format_unit(t.minutes, "Minute")) ELSE p2
        dec == calculate_decimal(t)
    IN  Append(p3, format_float_unit(t.seconds, dec, "Second"))

\* Time::format_time
format_time(t) == Join(format_time_parts(t), <<",", " ">>)

----------------------------------------------------------------------------
(* lib.rs *)

\* one tick of the modelled clock, in nanoseconds
TickNanos == 25 * 10^7

\* a Duration of n nanoseconds
DurationOfNanos(n) == [secs |-> n \div NanosPerSec, nanos |-> n % NanosPerSec]

\* Ord for Duration: a <= b
DurationLe(a, b) == a.secs < b.secs \/ (a.secs = b.secs /\ a.nanos <= b.nanos)

\* Instant::elapsed: Instant::now() - start, saturating at zero
elapsed(clock, start) ==
    DurationOfNanos((IF clock >= start THEN clock - start ELSE 0) * TickNanos)

\* ExecutionTime::start
start(clock) == [start_time |-> clock]

\* get_duration keeping the sub-second part of the elapsed time only
get_duration_subsec(self, clock) ==
    [secs |-> 0, nanos |-> elapsed(clock, self.start_time).nanos]

\* get_duration measuring from the clock's origin, not from start_time
get_duration_from_origin(self, clock) == elapsed(clock, 0)

\* ExecutionTime::get_duration
get_duration(self, clock) == elapsed(clock, self.start_time)

\* Debug of a Duration, fmt_decimal: the digits of the fractional part, most
\* significant first, up to its last non-zero digit
RECURSIVE FractionDigits(_, _)
FractionDigits(frac, divisor) ==
    IF frac = 0 THEN <<>>
    ELSE <<Digit(frac \div divisor)>> \o FractionDigits(frac % divisor, divisor \div 10)

\* Debug of a Duration, fmt_decimal: "{integer}[.{fraction}]{suffix}"
FmtDecimal(integer, frac, divisor, suffix) ==
    IntToStr(integer)
    \o (IF frac = 0 THEN <<>> ELSE <<".">> \o FractionDigits(frac, divisor))
    \o suffix

\* "{duration:?}": Debug of a Duration, in the largest unit it fills
DurationDebug(d) ==
    IF d.secs > 0 THEN FmtDecimal(d.secs, d.nanos, 10^8, <<"s">>)
    ELSE IF d.nanos >= 10^6
         THEN FmtDecimal(d.nanos \div 10^6, d.nanos % 10^6, 10^5, <<"m", "s">>)
    ELSE IF d.nanos >= 10^3
         THEN FmtDecimal(d.nanos \div 10^3, d.nanos % 10^3, 10^2, <<"µ", "s">>)
    ELSE FmtDecimal(d.nanos, 0, 1, <<"n", "s">>)

\* the threads that share one ExecutionTime
Threads == {"t1", "t2"}

\* a thread outside any call: its locals (duration, time), the String it was
\* returned, and, of its last call, the method called, the number of clock
\* readings made, and the clock and start_time seen by the last of them
IdleThread ==
    [pc |-> "idle", op |-> "none", calls |-> 0,
     duration |-> [secs |-> 0, nanos |-> 0], time |-> TimeDefault, text |-> <<>>,
     clock_reads |-> 0, at |-> 0, start_seen |-> 0]

\* a call of method op begins: nothing read yet
Enter(th, op) == [th EXCEPT !.op = op, !.calls = @ + 1, !.clock_reads = 0, !.text = <<>>]

\* `self.get_duration()` evaluated by a thread, into its local duration
read_duration(self, th, clock) ==
    [th EXCEPT !.duration = get_duration(self, clock),
               !.clock_reads = @ + 1, !.at = clock, !.start_seen = self.start_time]

\* get_elapsed_time, line 56: let duration = self.get_duration();
elapsed_time_duration(self, th, clock) == read_duration(self, th, clock)

\* line 57 as `let time = self.get_time();`: the clock is read a second time
elapsed_time_time_rereads(self, th, clock, S) ==
    LET again == get_duration(self, clock)
    IN  [th EXCEPT !.time = get_time_of(F64(again.secs, again.nanos, 0)),
                   !.clock_reads = @ + 1]

\* get_elapsed_time, line 57: let time = duration.get_time();  S is the f64
\* as_secs_f64 gives for the local duration
elapsed_time_time(self, th, clock, S) == [th EXCEPT !.time = get_time_of(S)]

\* get_elapsed_time, line 58: format!("{} ({duration:?})", time.format_time())
elapsed_time_format(th) ==
    [th EXCEPT !.text = format_time(th.time) \o <<" ", "(">>
                        \o DurationDebug(th.duration) \o <<")">>]

\* print_elapsed_time: println!("Elapsed time: {}", ...), the line written
elapsed_time_line(th) ==
    <<"E", "l", "a", "p", "s", "e", "d", " ", "t", "i", "m", "e", ":", " ">>
    \o th.text \o <<"\n">>

----------------------------------------------------------------------------
(* The inputs the operations are applied to. *)

DayOffsets == {0, 1, 59, 60, 61, 3599, 3600, 3661, 7528, 43200, 86399}

NanoSamples == {0, 1, 57, 80057, 15200000, 56891730, 80012045, 500000000, 999999999}

Durations ==
    {[secs |-> d * SECONDS_IN_DAY + r, nanos |-> n] :
        d \in 0..MaxDays, r \in DayOffsets, n \in NanoSamples}

HourSamples == {0, 1, 2, 23}

MinuteSamples == {0, 1, 2, 59}

\* seconds fields on both sides of every threshold of calculate_decimal and of
\* the plural threshold, none of them a tie of the precision it is printed with
SecondSamples ==
    { F64(0, 0, 0), F64(0, 0, 50), F64(0, 0, 99), F64(0, 0, 100), F64(0, 1, 0),
      F64(0, 57, 0), F64(0, 999999, 999), F64(0, 1000000, 0), F64(0, 15200000, 0),
      F64(0, 999999600, 0), F64(1, 0, 0), F64(1, 999600000, 0), F64(2, 0, 0),
      F64(4, 567002000, 0), F64(59, 999600000, 0) }

Times ==
    {Time(d, h, m, s) :
        d \in 0..MaxDays, h \in HourSamples, m \in MinuteSamples, s \in SecondSamples}

CountSamples == {0, 1, 2, 3, 10, 59, 255}

ValueSamples ==
    { F64(0, 0, 0), F64(0, 567000000, 0), F64(1, 0, 0), F64(1, 567000000, 0),
      F64(1, 999600000, 0), F64(1, 999999999, 999), F64(2, 0, 0), F64(2, 567000000, 0) }

DecimalSamples == {0, 1, 2, 3, 6, 9}

NoDuration == [secs |-> 0, nanos |-> 0]

----------------------------------------------------------------------------
(* Actions. *)

\* <Duration as DurationExtension>::get_time
GetTime ==
    /\ pc = "duration"
    /\ \E S \in as_secs_f64(duration) :
          /\ all_seconds' = S
          /\ time' = get_time_of(S)
    /\ pc' = "time"
    /\ UNCHANGED <<duration, text, count, value, decimal, unit, now, start_time, reads,
                 thread, stdout>>

\* Time::format_time
FormatTime ==
    /\ pc = "time"
    /\ text' = format_time(time)
    /\ pc' = "text"
    /\ UNCHANGED <<duration, all_seconds, time, count, value, decimal, unit,
                   now, start_time, reads, thread, stdout>>

\* FormatIntegerValue::format_unit
FormatUnit ==
    /\ pc = "integer"
    /\ text' = format_unit(count, unit)
    /\ pc' = "integer_text"
    /\ UNCHANGED <<duration, all_seconds, time, count, value, decimal, unit,
                   now, start_time, reads, thread, stdout>>

\* FormatFloatValue::format_float_unit
FormatFloatUnit ==
    /\ pc = "float"
    /\ text' = format_float_unit(value, decimal, unit)
    /\ pc' = "float_text"
    /\ UNCHANGED <<duration, all_seconds, time, count, value, decimal, unit,
                   now, start_time, reads, thread, stdout>>

\* the monotonic clock advances
Tick ==
    /\ pc = "watch"
    /\ now < MaxClock
    /\ now' = now + 1
    /\ UNCHANGED <<duration, all_seconds, time, text, count, value, decimal, unit,
                   pc, start_time, reads, thread, stdout>>

\* ExecutionTime::get_duration
GetDuration ==
    /\ pc = "watch"
    /\ Len(reads) < MaxReads
    /\ reads' = Append(reads, get_duration([start_time |-> start_time], now))
    /\ UNCHANGED <<duration, all_seconds, time, text, count, value, decimal, unit,
                   pc, now, start_time, thread, stdout>>

\* the ExecutionTime the threads share
Self == [start_time |-> start_time]

\* ExecutionTime::get_duration called by thread t
CallGetDuration(t) ==
    /\ pc = "threads"
    /\ thread[t].pc = "idle" /\ thread[t].calls < MaxCalls
    /\ thread' = [thread EXCEPT ![t] = read_duration(Self, Enter(@, "get_duration"), now)]
    /\ UNCHANGED <<duration, all_seconds, time, text, count, value, decimal, unit,
                   pc, now, start_time, reads, stdout>>

\* ExecutionTime::get_time called by thread t: self.get_duration().get_time()
CallGetTime(t) ==
    /\ pc = "threads"
    /\ thread[t].pc = "idle" /\ thread[t].calls < MaxCalls
    /\ LET th == read_duration(Self, Enter(thread[t], "get_time"), now)
       IN  \E S \in as_secs_f64(th.duration) :
              thread' = [thread EXCEPT ![t] = [th EXCEPT !.time = get_time_of(S)]]
    /\ UNCHANGED <<duration, all_seconds, time, text, count, value, decimal, unit,
                   pc, now, start_time, reads, stdout>>

\* ExecutionTime::get_elapsed_time entered by thread t, directly or from
\* print_elapsed_time, and its line 56
GetElapsedTime56(t) ==
    /\ pc = "threads"
    /\ thread[t].pc = "idle" /\ thread[t].calls < MaxCalls
    /\ \E op \in {"get_elapsed_time", "print_elapsed_time"} :
          thread' = [thread EXCEPT ![t] =
                        [elapsed_time_duration(Self, Enter(@, op), now)
                            EXCEPT !.pc = "line57"]]
    /\ UNCHANGED <<duration, all_seconds, time, text, count, value, decimal, unit,
                   pc, now, start_time, reads, stdout>>

\* get_elapsed_time, line 57, by thread t
GetElapsedTime57(t) ==
    /\ pc = "threads"
    /\ thread[t].pc = "line57"
    /\ \E S \in as_secs_f64(thread[t].duration) :
          thread' = [thread EXCEPT ![t] =
                        [elapsed_time_time(Self, @, now, S) EXCEPT !.pc = "line58"]]
    /\ UNCHANGED <<duration, all_seconds, time, text, count, value, decimal, unit,
                   pc, now, start_time, reads, stdout>>

\* get_elapsed_time, line 58, by thread t: the String is returned, to the
\* caller or to print_elapsed_time
GetElapsedTime58(t) ==
    /\ pc = "threads"
    /\ thread[t].pc = "line58"
    /\ LET next == IF thread[t].op = "print_elapsed_time" THEN "line65" ELSE "idle"
       IN  thread' = [thread EXCEPT ![t] =
                        [elapsed_time_format(@) EXCEPT !.pc = next]]
    /\ UNCHANGED <<duration, all_seconds, time, text, count, value, decimal, unit,
                   pc, now, start_time, reads, stdout>>

\* print_elapsed_time, line 65, by thread t: println!
PrintElapsedTime65(t) ==
    /\ pc = "threads"
    /\ thread[t].pc = "line65"
    /\ stdout' = Append(stdout, elapsed_time_line(thread[t]))
    /\ thread' = [thread EXCEPT ![t].pc = "idle"]
    /\ UNCHANGED <<duration, all_seconds, time, text, count, value, decimal, unit,
                   pc, now, start_time, reads>>

\* the monotonic clock advances while threads are in their calls
TickThreads ==
    /\ pc = "threads"
    /\ now < MaxClock
    /\ now' = now + 1
    /\ UNCHANGED <<duration, all_seconds, time, text, count, value, decimal, unit,
                   pc, start_time, reads, thread, stdout>>

----------------------------------------------------------------------------
(* Specifications. *)

\* get_time applied to a Duration, then format_time to its result
InitGetTime ==
    /\ duration \in Durations
    /\ all_seconds = F64Zero /\ time = TimeDefault /\ text = <<>>
    /\ pc = "duration"
    /\ count = 0 /\ value = F64Zero /\ decimal = 0 /\ unit = "Second"
    /\ now = 0 /\ start_time = 0 /\ reads = <<>>
    /\ thread = [t \in Threads |-> IdleThread] /\ stdout = <<>>

NextGetTime == GetTime \/ FormatTime

SpecGetTime == InitGetTime /\ [][NextGetTime]_vars

\* format_time applied to any Time (its fields are public)
InitFormat ==
    /\ time \in Times
    /\ duration = NoDuration /\ all_seconds = F64Zero /\ text = <<>>
    /\ pc = "time"
    /\ count = 0 /\ value = F64Zero /\ decimal = 0 /\ unit = "Second"
    /\ now = 0 /\ start_time = 0 /\ reads = <<>>
    /\ thread = [t \in Threads |-> IdleThread] /\ stdout = <<>>

NextFormat == FormatTime

SpecFormat == InitFormat /\ [][NextFormat]_vars

\* the two value formatters
InitUnits ==
    /\ \/ pc = "integer" /\ count \in CountSamples /\ value = F64Zero /\ decimal = 0
       \/ pc = "float" /\ count = 0 /\ value \in ValueSamples /\ decimal \in DecimalSamples
    /\ unit \in Unit
    /\ duration = NoDuration /\ all_seconds = F64Zero /\ time = TimeDefault /\ text = <<>>
    /\ now = 0 /\ start_time = 0 /\ reads = <<>>
    /\ thread = [t \in Threads |-> IdleThread] /\ stdout = <<>>

NextUnits == FormatUnit \/ FormatFloatUnit

SpecUnits == InitUnits /\ [][NextUnits]_vars

\* the stopwatch: ExecutionTime::start has run at some clock value
Init ==
    /\ now \in 0..MaxClock
    /\ start_time = start(now).start_time
    /\ reads = <<>>
    /\ pc = "watch"
    /\ duration = NoDuration /\ all_seconds = F64Zero /\ time = TimeDefault /\ text = <<>>
    /\ count = 0 /\ value = F64Zero /\ decimal = 0 /\ unit = "Second"
    /\ thread = [t \in Threads |-> IdleThread] /\ stdout = <<>>

Next == Tick \/ GetDuration

Spec == Init /\ [][Next]_vars

\* the stopwatch shared by threads: ExecutionTime::start has run at some clock
\* value, and every thread calls its methods, the clock advancing meanwhile
InitThreads ==
    /\ now \in 0..MaxClock
    /\ start_time = start(now).start_time
    /\ reads = <<>>
    /\ pc = "threads"
    /\ thread = [t \in Threads |-> IdleThread] /\ stdout = <<>>
    /\ duration = NoDuration /\ all_seconds = F64Zero /\ time = TimeDefault /\ text = <<>>
    /\ count = 0 /\ value = F64Zero /\ decimal = 0 /\ unit = "Second"

NextThreads ==
    \/ TickThreads
    \/ \E t \in Threads :
          \/ CallGetDuration(t)
          \/ CallGetTime(t)
          \/ GetElapsedTime56(t)
          \/ GetElapsedTime57(t)
          \/ GetElapsedTime58(t)
          \/ PrintElapsedTime65(t)

SpecThreads == InitThreads /\ [][NextThreads]_vars

----------------------------------------------------------------------------
(* Reading a returned String back. *)

\* the pieces of s between commas
RECURSIVE SplitComma(_)
SplitComma(s) ==
    LET i == IndexOf(s, ",")
    IN  IF i = 0 THEN <<s>>
        ELSE <<SubSeq(s, 1, i - 1)>> \o SplitComma(SubSeq(s, i + 1, Len(s)))

\* the parts of a format_time result: the pieces between commas, each piece
\* after the first without the space that must follow the comma (a piece that
\* does not start with that space is kept whole, and then reads as no part)
PartsOf(s) ==
    LET pieces == SplitComma(s)
    IN  [i \in 1..Len(pieces) |->
            IF i > 1 /\ pieces[i] # <<>> /\ pieces[i][1] = " "
            THEN Tail(pieces[i]) ELSE pieces[i]]

\* "<number> <label>": what precedes and what follows the first space
NumberOf(part) == SubSeq(part, 1, IndexOf(part, " ") - 1)
LabelOf(part) == SubSeq(part, IndexOf(part, " ") + 1, Len(part))

\* the number of digits after the decimal point of a printed number
FracDigits(num) == IF IndexOf(num, ".") = 0 THEN 0 ELSE Len(num) - IndexOf(num, ".")

IsDigit(c) == c \in {"0", "1", "2", "3", "4", "5", "6", "7", "8", "9"}

DigitValue(c) == CHOOSE d \in 0..9 : Digit(d) = c

\* the integer a non-empty string of digits denotes, -1 for any other string
RECURSIVE ParseInt(_)
ParseInt(s) ==
    IF s = <<>> \/ \E i \in 1..Len(s) : ~IsDigit(s[i]) THEN 0 - 1
    ELSE IF Len(s) = 1 THEN DigitValue(s[1])
    ELSE 10 * ParseInt(SubSeq(s, 1, Len(s) - 1)) + DigitValue(s[Len(s)])

\* the Unit a label names, "None" when it names none
UnitOf(label) ==
    IF \E u \in Unit : label \in {singular(u), plural(u)}
    THEN CHOOSE u \in Unit : label \in {singular(u), plural(u)}
    ELSE "None"

\* the Units of the parts of a format_time result, in order
UnitsOf(s) == [i \in 1..Len(PartsOf(s)) |-> UnitOf(LabelOf(PartsOf(s)[i]))]

----------------------------------------------------------------------------
(* Claims about get_time (SpecGetTime). *)

\* get_time has returned
Decomposed == pc \in {"time", "text"}

\* the whole seconds of S left once the days, the hours and the minutes of t
\* are taken out of it
RestAfterDays(S, t) == S.sec - t.days * 86400
RestAfterHours(S, t) == RestAfterDays(S, t) - t.hours * 3600
RestAfterMinutes(S, t) == RestAfterHours(S, t) - t.minutes * 60

\* x is the whole number of nanoseconds nearest to y, a half going up
NearestNano(x, y) ==
    /\ x.pico = 0
    /\ x = IF y.pico < 500 THEN F64(y.sec, y.nano, 0)
           ELSE F64AddPico(F64(y.sec, y.nano, 0), 1000)

\* C1: for a Duration of S total seconds, get_time returns days = floor(S / 86400),
\* hours = floor((S mod 86400) / 3600), minutes = floor(((S mod 86400) mod 3600) / 60)
\* and seconds = the rest, rounded to a whole number of nanoseconds.  A floor is
\* stated by its bracket: q = floor(a / b) iff q*b <= a < (q+1)*b.
C1_Decomposition ==
    Decomposed =>
        LET S == all_seconds
            t == time
        IN  /\ S \in as_secs_f64(duration)
            /\ t.days >= 0 /\ t.hours >= 0 /\ t.minutes >= 0
            /\ RestAfterDays(S, t) \in 0..(86400 - 1)
            /\ RestAfterHours(S, t) \in 0..(3600 - 1)
            /\ RestAfterMinutes(S, t) \in 0..(60 - 1)
            /\ NearestNano(t.seconds, F64(RestAfterMinutes(S, t), S.nano, S.pico))

\* get_time has split a Duration of more than a day whose f64 value lies
\* above a whole number of nanoseconds by less than half of one ...
C1_Witness ==
    /\ pc = "time"
    /\ time.days >= 1 /\ time.hours >= 1 /\ time.minutes >= 1
    /\ all_seconds.pico \in 1..499
    /\ time.seconds = F64(1, 57, 0)

\* C2: the Time get_time returns has 0 <= hours < 24, 0 <= minutes < 60 and
\* 0 <= seconds < 60: the rounding to 9 digits never yields 60.
C2_Ranges ==
    Decomposed =>
        /\ time.hours \in 0..23
        /\ time.minutes \in 0..59
        /\ time.seconds.sec >= 0 /\ time.seconds.nano \in 0..(NanosPerSec - 1)
        /\ time.seconds.pico \in 0..(PicosPerNano - 1)
        /\ F64Lt(time.seconds, F64(60, 0, 0))

\* the last nanosecond of a day, its f64 value above the exact one: every
\* field is at its upper end and the rounding goes down
C2_Witness ==
    /\ pc = "time"
    /\ duration.secs % 86400 = 86399 /\ duration.nanos = 999999999
    /\ all_seconds.pico > 0 /\ all_seconds.nano = 999999999
    /\ time.hours = 23 /\ time.minutes = 59
    /\ time.seconds = F64(59, 999999999, 0)

\* |a - b| <= tol picoseconds
Within(a, b, tol) == ~F64Lt(F64AddPico(b, tol), a) /\ ~F64Lt(F64AddPico(a, tol), b)

\* days*86400 + hours*3600 + minutes*60 + seconds
Recomposed(t) ==
    F64(t.days * 86400 + t.hours * 3600 + t.minutes * 60 + t.seconds.sec,
        t.seconds.nano, t.seconds.pico)

\* C3: the Time get_time returns recomposes to the input: days*86400 +
\* hours*3600 + minutes*60 + seconds differs from S by at most 1e-8 s (10^4 ps).
C3_Recomposes ==
    Decomposed => Within(Recomposed(time), all_seconds, 10^4)

\* a Duration of days, hours, minutes and a fraction was split, and the
\* recomposition differs from S (by the residue that was rounded away)
C3_Witness ==
    /\ pc = "time"
    /\ time.days >= 1 /\ time.hours >= 1 /\ time.minutes >= 1
    /\ time.seconds.nano > 0
    /\ Recomposed(time) # all_seconds

\* "0.0 second"
ZeroText == <<"0", ".", "0", " ", "s", "e", "c", "o", "n", "d">>

\* C9: get_time of the zero Duration is the zero Time, Time::default(), and
\* format_time of it is exactly "0.0 second".
C9_Zero ==
    (duration = [secs |-> 0, nanos |-> 0]) =>
        /\ Decomposed =>
              /\ time.days = 0 /\ time.hours = 0 /\ time.minutes = 0
              /\ time.seconds = F64(0, 0, 0)
              /\ time = TimeDefault
        /\ pc = "text" => text = ZeroText

\* the zero Duration was split and its Time formatted
C9_Witness ==
    /\ pc = "text"
    /\ duration = [secs |-> 0, nanos |-> 0]
    /\ time = TimeDefault
    /\ text = ZeroText

----------------------------------------------------------------------------
(* Claims about format_time (SpecFormat). *)

\* format_time has returned
Formatted == pc = "text"

\* the Units the parts of format_time(t) are to have, in order: day iff
\* days > 0, hour iff hours > 0 or a day part, minute iff minutes > 0 or an
\* earlier part, and always second
ExpectedUnits(t) ==
    LET day    == t.days > 0
        hour   == t.hours > 0 \/ day
        minute == t.minutes > 0 \/ day \/ hour
    IN  (IF day THEN <<"Day">> ELSE <<>>)
        \o (IF hour THEN <<"Hour">> ELSE <<>>)
        \o (IF minute THEN <<"Minute">> ELSE <<>>)
        \o <<"Second">>

\* the field of t a part of unit u prints
FieldOf(t, u) ==
    CASE u = "Day" -> t.days
      [] u = "Hour" -> t.hours
      [] u = "Minute" -> t.minutes

HasPart(s, u) == \E i \in 1..Len(UnitsOf(s)) : UnitsOf(s)[i] = u

PolicyDigits(sec) ==
    {k \in {1, 3, 6, 9} :
        \/ k = 1 /\ F64Lt(sec, F64(0, 0, 100))
        \/ k = 3 /\ F64Ge(sec, F64(1, 0, 0))
        \/ k = 6 /\ F64Ge(sec, F64(0, 1000000, 0)) /\ F64Lt(sec, F64(1, 0, 0))
        \/ k = 9 /\ F64Ge(sec, F64(0, 0, 100)) /\ F64Lt(sec, F64(0, 1000000, 0))}

\* the number the last part of a format_time result prints
SecondsNumber(s) == NumberOf(PartsOf(s)[Len(PartsOf(s))])

\* C6: the seconds part of format_time is printed with exactly k fractional
\* digits, k = 1 if seconds < 1e-10, 3 if seconds >= 1.0, 6 if 0.001 <= seconds
\* < 1.0, 9 if 1e-10 <= seconds < 0.001; exactly one of the four conditions
\* holds of any seconds >= 0.
C6_DecimalPolicy ==
    Formatted =>
        /\ Cardinality(PolicyDigits(time.seconds)) = 1
        /\ IndexOf(SecondsNumber(text), ".") > 1
        /\ PolicyDigits(time.seconds) = {FracDigits(SecondsNumber(text))}

\* seconds = 1e-10, the least value printed with nine digits: "0.000000000"
C6_Witness ==
    /\ Formatted
    /\ time.seconds = F64(0, 0, 100)
    /\ SecondsNumber(text) = <<"0", ".", "0", "0", "0", "0", "0", "0", "0", "0", "0">>

----------------------------------------------------------------------------
(* Claims about the value formatters (SpecUnits). *)

\* C7: format_float_unit(x, k, u) uses the plural label iff x >= 2.0 and the
\* singular label otherwise, whatever digits are printed: an x below 2 that is
\* printed as 2 is singular, and x = 2.0 is plural.
C7_FloatPlural ==
    pc = "float_text" =>
        /\ F64Ge(value, F64(2, 0, 0)) => LabelOf(text) = plural(unit)
        /\ F64Lt(value, F64(2, 0, 0)) => LabelOf(text) = singular(unit)
        /\ IndexOf(text, " ") > 1

\* 1.9996 printed with three digits: "2.000 second"
C7_Witness ==
    /\ pc = "float_text"
    /\ value = F64(1, 999600000, 0) /\ decimal = 3 /\ unit = "Second"
    /\ NumberOf(text) = <<"2", ".", "0", "0", "0">>
    /\ LabelOf(text) = <<"s", "e", "c", "o", "n", "d">>

\* C8: format_unit(n, u) is "{n} {label}", label the plural of u iff n >= 2 and
\* the singular otherwise: 0 and 1 are singular, for each of the four units.
C8_IntegerPlural ==
    pc = "integer_text" =>
        /\ ParseInt(NumberOf(text)) = count
        /\ text = NumberOf(text) \o <<" ">> \o LabelOf(text)
        /\ count >= 2 => LabelOf(text) = plural(unit)
        /\ count < 2 => LabelOf(text) = singular(unit)

\* "0 hour"
C8_Witness ==
    /\ pc = "integer_text"
    /\ count = 0 /\ unit = "Hour"
    /\ text = <<"0", " ", "h", "o", "u", "r">>

----------------------------------------------------------------------------
(* Claims about the stopwatch (Spec). *)

\* C10: every get_duration returns at least what every earlier get_duration
\* on the same instance returned, and never a negative Duration.
C10_Monotonic ==
    /\ \A i \in 1..Len(reads) : reads[i].secs >= 0 /\ reads[i].nanos \in 0..(NanosPerSec - 1)
    /\ \A i \in 1..Len(reads) : \A j \in i..Len(reads) : DurationLe(reads[i], reads[j])

\* two reads with the clock advanced between them across a whole second
C10_Witness ==
    /\ Len(reads) >= 2
    /\ reads[1].secs < reads[2].secs /\ reads[2].nanos < reads[1].nanos

----------------------------------------------------------------------------
(* Claims about the stopwatch shared by threads (SpecThreads). *)

\* the nanoseconds from the stopwatch's start to the clock value a thread's
\* last reading was made at
ReadingNanos(th) == (th.at - start_time) * TickNanos

\* the reading a thread holds is the clock at that reading minus start_time
ReadsFromStart(th) ==
    /\ th.start_seen = start_time
    /\ th.at >= start_time
    /\ th.duration.secs * NanosPerSec + th.duration.nanos = ReadingNanos(th)

\* C11: once started, no step of get_duration, get_time, get_elapsed_time or
\* print_elapsed_time, of any thread in any interleaving, changes start_time,
\* and every reading is the clock's value at the reading minus that start_time.
C11_StartFixed ==
    /\ [][start_time' = start_time]_vars
    /\ [](\A t \in Threads : thread[t].clock_reads > 0 => ReadsFromStart(thread[t]))

\* a stopwatch started after the clock's origin, one thread still inside
\* get_elapsed_time with its reading, the other having read later
C11_Witness ==
    /\ pc = "threads" /\ start_time > 0
    /\ thread["t1"].pc = "line58" /\ thread["t1"].clock_reads = 1
    /\ thread["t2"].op = "get_duration" /\ thread["t2"].clock_reads = 1
    /\ thread["t1"].at < thread["t2"].at
    /\ thread["t1"].duration # thread["t2"].duration


\* get_elapsed_time has returned its String to thread th (to its caller, or to
\* print_elapsed_time)
ElapsedReturned(th) ==
    /\ th.op \in {"get_elapsed_time", "print_elapsed_time"}
    /\ th.pc \in {"idle", "line65"}

\* the two halves of "{formatted} ({raw})"
FormattedOf(s) == SubSeq(s, 1, IndexOf(s, "(") - 2)
RawOf(s) == SubSeq(s, IndexOf(s, "(") + 1, Len(s) - 1)

\* the digits and the point a printed number starts with, and what follows
NumberLen(s) == Cardinality({i \in 1..Len(s) : IsDigit(s[i]) \/ s[i] = "."})
SuffixOf(s) == SubSeq(s, NumberLen(s) + 1, Len(s))

\* the nanoseconds in one unit of a Duration's Debug suffix, 0 for any other
SuffixNanos(suffix) ==
    CASE suffix = <<"s">> -> 10^9
      [] suffix = <<"m", "s">> -> 10^6
      [] suffix = <<"µ", "s">> -> 10^3
      [] suffix = <<"n", "s">> -> 1
      [] OTHER -> 0

\* the nanoseconds "{int}[.{frac}]" denotes in a unit of unitNanos nanoseconds
DecimalNanos(num, unitNanos) ==
    LET dot  == IndexOf(num, ".")
        int  == IF dot = 0 THEN num ELSE SubSeq(num, 1, dot - 1)
        frac == IF dot = 0 THEN <<>> ELSE SubSeq(num, dot + 1, Len(num))
    IN  ParseInt(int) * unitNanos
        + (IF frac = <<>> THEN 0 ELSE ParseInt(frac) * (unitNanos \div 10^Len(frac)))

\* the nanoseconds the raw half denotes
RawNanos(raw) == DecimalNanos(SubSeq(raw, 1, NumberLen(raw)), SuffixNanos(SuffixOf(raw)))

\* the nanoseconds the formatted half denotes when it is a seconds part alone
\* (every reading of the modelled clock is below a minute, and is a multiple
\* of a quarter second, which three and six digits print without rounding)
FormattedNanos(formatted) == DecimalNanos(NumberOf(formatted), 10^9)

\* C12: every call of get_elapsed_time reads the clock exactly once, and both
\* halves of its result "{formatted} ({raw})" come from that one reading d:
\* formatted is format_time(get_time(d)) and raw is the Debug of d, whatever
\* the clock and the other threads did during the call; print_elapsed_time
\* writes that String after "Elapsed time: ".
C12_SingleReading ==
    \A t \in Threads :
        LET th == thread[t]
            d  == DurationOfNanos(ReadingNanos(th))
        IN  /\ ElapsedReturned(th) =>
                /\ th.clock_reads = 1
                /\ \E S \in as_secs_f64(d) :
                      th.text = format_time(get_time_of(S)) \o <<" ", "(">>
                                    \o DurationDebug(d) \o <<")">>
                /\ th.text[Len(th.text)] = ")"
                /\ UnitsOf(FormattedOf(th.text)) = <<"Second">>
                /\ FormattedNanos(FormattedOf(th.text)) = ReadingNanos(th)
                /\ RawNanos(RawOf(th.text)) = ReadingNanos(th)
            /\ (th.op = "print_elapsed_time" /\ th.pc = "idle") =>
                \E i \in 1..Len(stdout) : stdout[i] = elapsed_time_line(th)

\* a call of get_elapsed_time that read the clock 1.25 s after the start has
\* returned; the clock advanced and the other thread read it meanwhile
C12_Witness ==
    /\ pc = "threads"
    /\ thread["t1"].op = "get_elapsed_time" /\ thread["t1"].pc = "idle"
    /\ thread["t1"].text =
          <<"1", ".", "2", "5", "0", " ", "s", "e", "c", "o", "n", "d", " ",
            "(", "1", ".", "2", "5", "s", ")">>
    /\ now > thread["t1"].at
    /\ thread["t2"].clock_reads = 1 /\ thread["t2"].at > thread["t1"].at

====
